---- MODULE Spec2Model ----
(***************************************************************************)
(* HP 3000 main memory simulator (HP3000/hp3000_mem.c).                    *)
(*                                                                         *)
(* The module models the word access routines mem_read and mem_write: the  *)
(* formation of the physical address from the access classification, the   *)
(* configured-size test, the dispatch on the classification with the       *)
(* top-of-stack (TOS) register overlay, the segment bounds checks and the  *)
(* Bounds Violation trap; and the byte accessor built on them: the         *)
(* routines mem_init_byte, mem_set_byte, mem_reset_byte, mem_lookup_byte,  *)
(* mem_read_byte, mem_write_byte, mem_modify_byte, mem_post_byte and       *)
(* mem_update_byte.                                                        *)
(*                                                                         *)
(* The machine is scaled down: a logical address is LA_WIDTH bits wide     *)
(* (16 in the simulator), a byte is D8_WIDTH bits wide (8), the TOS       *)
(* register file holds TR_N registers (4) and the configured memory is two *)
(* banks.  All arithmetic is the code's arithmetic on these widths.        *)
(***************************************************************************)
EXTENDS Integers, FiniteSets, Sequences, TLC

(***************************************************************************)
(* Bounds of the model.                                                    *)
(***************************************************************************)
LA_WIDTH == 2
D8_WIDTH == 1
TR_N == 2
MaxBound == 2
MaxValue == 1

(***************************************************************************)
(* hp3000_defs.h / hp3000_cpu.h: widths, masks and address macros.         *)
(***************************************************************************)
\* a word is two bytes
D_WIDTH == 2 * D8_WIDTH
DV_MASK == 2 ^ D_WIDTH - 1
D8_MASK == 2 ^ D8_WIDTH - 1
LA_MASK == 2 ^ LA_WIDTH - 1

\* the configured memory size (cpu_unit [0].capac): two banks of words
MEMSIZE == 2 * 2 ^ LA_WIDTH

\* the allocation of mem_initialize: the largest configuration, one bank more
\* than the configured size
MEMORY_ALLOCATION == MEMSIZE + 2 ^ LA_WIDTH

RECURSIVE BitOr(_, _)
\* the C operator |
BitOr(a, b) ==
    IF a = 0 THEN b
    ELSE IF b = 0 THEN a
    ELSE (IF a % 2 = 1 \/ b % 2 = 1 THEN 1 ELSE 0) + 2 * BitOr(a \div 2, b \div 2)

TO_BANK(pa) == pa \div 2 ^ LA_WIDTH
TO_OFFSET(pa) == pa % 2 ^ LA_WIDTH

\* the (MEMORY_WORD) cast of an HP_WORD
MEMORY_WORD(value) == value % 2 ^ D_WIDTH

cpx1_ILLADDR == "ILLADDR"
cpx1_ADDRPAR == "ADDRPAR"

(***************************************************************************)
(* ACCESS_CLASS and the memory access classification table.                *)
(***************************************************************************)
ACCESS_CLASS ==
    << "absolute", "absolute_mapped", "fetch", "fetch_checked", "program",
       "program_checked", "data", "data_checked", "data_mapped",
       "data_mapped_checked", "stack", "stack_checked", "dma" >>

Classes == { ACCESS_CLASS[i] : i \in 1..Len(ACCESS_CLASS) }

ClassIndex(c) == CHOOSE i \in 1..Len(ACCESS_CLASS) : ACCESS_CLASS[i] = c

\* bank_ptr of each classification; "NULL" for absolute and DMA accesses
mem_access ==
    [ c \in Classes |->
        [ bank_ptr |->
            CASE c \in {"absolute", "absolute_mapped", "dma"} -> "NULL"
              [] c \in {"fetch", "fetch_checked", "program", "program_checked"} -> "PBANK"
              [] c \in {"data", "data_checked", "data_mapped", "data_mapped_checked"} -> "DBANK"
              [] c \in {"stack", "stack_checked"} -> "SBANK" ] ]

\* INVERT_CHECK: the enumeration pairs each unchecked class with its checked
\* counterpart, differing in the low bit of the enumeration value
INVERT_CHECK(c) ==
    LET n == ClassIndex(c) - 1
        m == IF n % 2 = 0 THEN n + 1 ELSE n - 1
    IN  IF m + 1 \in 1..Len(ACCESS_CLASS) THEN ACCESS_CLASS[m + 1] ELSE c

Devices == {"cpu_dev", "dma_dev"}

(***************************************************************************)
(* State.  M is the Word Store (MEMSIZE words configured of those allocated), TR the TOS       *)
(* register file, CPX1 the set of interrupt flags; the bank and segment    *)
(* registers and PRIV belong to the CPU.  last and prev record the two     *)
(* most recent calls and their outcomes, pre the memory state on entry to  *)
(* the most recent call.                                                   *)
(***************************************************************************)
VARIABLES M, TR, CPX1, PBANK, DBANK, SBANK, PB, PL, DL, SM, SR, PRIV,
          last, prev, pre,
          bap, byte_offset, blast, bprev, bpre, binit, steps, trip, shadow, fmt

regs == << PBANK, DBANK, SBANK, PB, PL, DL, SM, SR, PRIV >>
\* the byte accessor, the byte offset variable it is bound to and their history
bytes == << bap, byte_offset, blast, bprev, bpre, binit, steps, trip, shadow,
           fmt >>
vars == << M, TR, CPX1, PBANK, DBANK, SBANK, PB, PL, DL, SM, SR, PRIV,
           last, prev, pre, bytes >>

\* the Word Store, the TOS registers and the interrupt flags as they are now;
\* the access routines take the memory state they act on as s
Now == [ mem |-> M, tos |-> TR, cpx1 |-> CPX1 ]

Bank(ptr) ==
    CASE ptr = "PBANK" -> PBANK
      [] ptr = "DBANK" -> DBANK
      [] ptr = "SBANK" -> SBANK

\* mutant: the bank number reduced to the banks of the configured memory
FormAddress_wrapped(classification, offset) ==
    IF mem_access[classification].bank_ptr = "NULL"
    THEN [ address |-> offset, bank |-> TO_BANK(offset), offset |-> TO_OFFSET(offset) ]
    ELSE LET bank == Bank(mem_access[classification].bank_ptr) % TO_BANK(MEMSIZE)
         IN  [ address |-> BitOr(bank * 2 ^ LA_WIDTH, offset),
               bank |-> bank, offset |-> offset ]

\* lines 382-391 / 513-522: the bank, offset and physical address of an access
FormAddress(classification, offset) ==
    IF mem_access[classification].bank_ptr = "NULL"
    THEN [ address |-> offset, bank |-> TO_BANK(offset), offset |-> TO_OFFSET(offset) ]
    ELSE LET bank == Bank(mem_access[classification].bank_ptr)
         IN  [ address |-> BitOr(bank * 2 ^ LA_WIDTH, offset),
               bank |-> bank, offset |-> offset ]

\* the TOS window test of lines 416, 449, 544 and 553
InTOS(bank, offset) == offset > SM /\ offset <= SM + SR /\ bank = SBANK

NoCall == [ op |-> "none" ]

\* no byte written and none read back
NoTrip == [ put |-> << >>, got |-> << >> ]

\* no operand formatted
NoFormat == [ pc |-> "idle" ]

\* no byte given to the accessor
NoShadow == [ orig |-> << >>, given |-> << >>, seen |-> {} ]

\* mutant: the registers indexed from the bottom of the window
TOSIndex_reversed(offset) == offset - SM - 1

\* the index of the TOS register that overlays the offset (lines 417, 450, 545, 554)
TOSIndex(offset) == SM + SR - offset

\* mutant: the size test off by one
BeyondMemory_above(address) == address > MEMSIZE

\* line 393 / 524: the access is beyond the memory size
BeyondMemory(address) == address >= MEMSIZE

\* mutant: the interrupt requested whoever the requester is
IllegalAddress_any(s, dptr) == s.cpx1 \cup {cpx1_ILLADDR}

\* line 394 / 525: the Illegal Address interrupt is requested for CPU accesses only
IllegalAddress(s, dptr) == IF dptr = "cpu_dev" THEN s.cpx1 \cup {cpx1_ILLADDR} ELSE s.cpx1

\* mutant: a privileged fetch exempt from the bounds
FetchLegal_privileged(offset) == (PB <= offset /\ offset <= PL) \/ PRIV

\* line 424: the bounds of an instruction fetch
FetchLegal(offset) == PB <= offset /\ offset <= PL

\* line 432: the bounds of a program access
ProgramLegal(offset) == (PB <= offset /\ offset <= PL) \/ PRIV

\* mutant: the upper bound exclusive
DataLegal_exclusive(offset) == (DL <= offset /\ offset < SM + SR) \/ PRIV

\* lines 440, 451 and 559: the bounds of a data or stack access
DataLegal(offset) == (DL <= offset /\ offset <= SM + SR) \/ PRIV

\* The outcome of a call: status is "TRUE" or "FALSE" for a return and "trap"
\* for MICRO_ABORT (trap_Bounds_Violation), which does not return; value is the
\* word delivered through the value pointer (0 when nothing is delivered); mem,
\* tos and cpx1 are the Word Store, the TOS registers and CPX1 as the call
\* leaves them.
Outcome(status, value, mem, tos, cpx1) ==
    [ status |-> status, value |-> value, mem |-> mem, tos |-> tos, cpx1 |-> cpx1 ]

\* mutant: the store lost
Store_lost(s, address, value) == s.mem

\* lines 537, 547 and 560: M [address] = (MEMORY_WORD) value
Store(s, address, value) == [s.mem EXCEPT ![address] = MEMORY_WORD(value)]

\* lines 413-420: a read through absolute_mapped, data_mapped or stack
ReadMapped(s, bank, offset, address) ==
    IF InTOS(bank, offset)
    THEN Outcome("TRUE", s.tos[TOSIndex(offset)], s.mem, s.tos, s.cpx1)
    ELSE Outcome("TRUE", s.mem[address], s.mem, s.tos, s.cpx1)

\* mutant: the bounds tested before the TOS window
ReadMappedChecked_bounds_first(s, bank, offset, address) ==
    IF ~DataLegal(offset)
    THEN Outcome("trap", 0, s.mem, s.tos, s.cpx1)
    ELSE IF InTOS(bank, offset)
    THEN Outcome("TRUE", s.tos[TOSIndex(offset)], s.mem, s.tos, s.cpx1)
    ELSE Outcome("TRUE", s.mem[address], s.mem, s.tos, s.cpx1)

\* mutant: the TOS window ignored
ReadMappedChecked_memory(s, bank, offset, address) ==
    IF DataLegal(offset)
    THEN Outcome("TRUE", s.mem[address], s.mem, s.tos, s.cpx1)
    ELSE Outcome("trap", 0, s.mem, s.tos, s.cpx1)

\* lines 447-455: a read through data_mapped_checked or stack_checked
ReadMappedChecked(s, bank, offset, address) ==
    IF InTOS(bank, offset)
    THEN Outcome("TRUE", s.tos[TOSIndex(offset)], s.mem, s.tos, s.cpx1)
    ELSE IF DataLegal(offset)
    THEN Outcome("TRUE", s.mem[address], s.mem, s.tos, s.cpx1)
    ELSE Outcome("trap", 0, s.mem, s.tos, s.cpx1)

\* lines 402-456: the dispatch of mem_read for an access within memory
ReadDispatch(s, classification, bank, offset, address) ==
    CASE classification \in {"dma", "absolute", "fetch", "program", "data"} ->
            Outcome("TRUE", s.mem[address], s.mem, s.tos, s.cpx1)
      [] classification \in {"absolute_mapped", "data_mapped", "stack"} ->
            ReadMapped(s, bank, offset, address)
      [] classification = "fetch_checked" ->
            IF FetchLegal(offset)
            THEN Outcome("TRUE", s.mem[address], s.mem, s.tos, s.cpx1)
            ELSE Outcome("trap", 0, s.mem, s.tos, s.cpx1)
      [] classification = "program_checked" ->
            IF ProgramLegal(offset)
            THEN Outcome("TRUE", s.mem[address], s.mem, s.tos, s.cpx1)
            ELSE Outcome("trap", 0, s.mem, s.tos, s.cpx1)
      [] classification = "data_checked" ->
            IF DataLegal(offset)
            THEN Outcome("TRUE", s.mem[address], s.mem, s.tos, s.cpx1)
            ELSE Outcome("trap", 0, s.mem, s.tos, s.cpx1)
      [] classification \in {"data_mapped_checked", "stack_checked"} ->
            ReadMappedChecked(s, bank, offset, address)

\* mutant: the word read cleared from the Word Store
mem_read_clearing(s, dptr, classification, offset) ==
    LET a == FormAddress(classification, offset)
    IN  IF BeyondMemory(a.address)
        THEN Outcome("FALSE", 0, s.mem, s.tos, IllegalAddress(s, dptr))
        ELSE Outcome("TRUE", s.mem[a.address], Store(s, a.address, 0), s.tos, s.cpx1)

\* lines 378-465
mem_read(s, dptr, classification, offset) ==
    LET a == FormAddress(classification, offset)
    IN  IF BeyondMemory(a.address)
        THEN Outcome("FALSE", 0, s.mem, s.tos, IllegalAddress(s, dptr))
        ELSE ReadDispatch(s, classification, a.bank, a.offset, a.address)

\* mutant: the write to a TOS register also written through to memory
WriteMapped_through(s, bank, offset, address, value) ==
    Outcome("TRUE", value, Store(s, address, value),
            IF InTOS(bank, offset)
            THEN [s.tos EXCEPT ![TOSIndex(offset)] = value]
            ELSE s.tos,
            s.cpx1)

\* lines 541-548: a write through absolute_mapped, data_mapped or stack
WriteMapped(s, bank, offset, address, value) ==
    IF InTOS(bank, offset)
    THEN Outcome("TRUE", value, s.mem, [s.tos EXCEPT ![TOSIndex(offset)] = value], s.cpx1)
    ELSE Outcome("TRUE", value, Store(s, address, value), s.tos, s.cpx1)

\* lines 558-563: the data_checked case, entered with the TOS registers tos
WriteChecked(s, tos, offset, address, value) ==
    IF DataLegal(offset)
    THEN Outcome("TRUE", value, Store(s, address, value), tos, s.cpx1)
    ELSE Outcome("trap", value, s.mem, tos, s.cpx1)

\* mutant: a break after the write to the TOS register, no fall through
WriteMappedChecked_break(s, bank, offset, address, value) ==
    IF InTOS(bank, offset)
    THEN Outcome("TRUE", value, s.mem, [s.tos EXCEPT ![TOSIndex(offset)] = value], s.cpx1)
    ELSE WriteChecked(s, s.tos, offset, address, value)

\* lines 551-563: data_mapped_checked and stack_checked write the TOS register
\* when the offset is within the TOS and then fall through into the checked case
WriteMappedChecked(s, bank, offset, address, value) ==
    WriteChecked(s, IF InTOS(bank, offset)
                 THEN [s.tos EXCEPT ![TOSIndex(offset)] = value]
                 ELSE s.tos,
                 offset, address, value)

\* mutant: the program classes written like data
WriteProgram_stores(s, offset, address, value) ==
    Outcome("TRUE", value, Store(s, address, value), s.tos, s.cpx1)

\* lines 566-571: fetch, fetch_checked, program and program_checked cannot be
\* used for writing
WriteProgram(s, offset, address, value) ==
    Outcome("FALSE", value, s.mem, s.tos, s.cpx1 \cup {cpx1_ADDRPAR})

\* lines 532-573: the dispatch of mem_write for an access within memory
WriteDispatch(s, classification, bank, offset, address, value) ==
    CASE classification \in {"dma", "absolute", "data"} ->
            Outcome("TRUE", value, Store(s, address, value), s.tos, s.cpx1)
      [] classification \in {"absolute_mapped", "data_mapped", "stack"} ->
            WriteMapped(s, bank, offset, address, value)
      [] classification \in {"data_mapped_checked", "stack_checked"} ->
            WriteMappedChecked(s, bank, offset, address, value)
      [] classification = "data_checked" ->
            WriteChecked(s, s.tos, offset, address, value)
      [] classification \in {"fetch", "fetch_checked", "program", "program_checked"} ->
            WriteProgram(s, offset, address, value)

\* mutant: the write-illegal classes dispatched before the size test
mem_write_dispatched(s, dptr, classification, offset, value) ==
    LET a == FormAddress(classification, offset)
    IN  IF classification \in {"fetch", "fetch_checked", "program", "program_checked"}
        THEN WriteDispatch(s, classification, a.bank, a.offset, a.address, value)
        ELSE IF BeyondMemory(a.address)
        THEN Outcome("FALSE", value, s.mem, s.tos, IllegalAddress(s, dptr))
        ELSE WriteDispatch(s, classification, a.bank, a.offset, a.address, value)

\* lines 509-581
mem_write(s, dptr, classification, offset, value) ==
    LET a == FormAddress(classification, offset)
    IN  IF BeyondMemory(a.address)
        THEN Outcome("FALSE", value, s.mem, s.tos, IllegalAddress(s, dptr))
        ELSE WriteDispatch(s, classification, a.bank, a.offset, a.address, value)

(***************************************************************************)
(* The byte accessor.  A machine state x holds the BYTE_ACCESS structure   *)
(* (bap), the caller's byte offset variable that bap->byte_offset points   *)
(* to (byte_offset) and the memory state (s); status becomes "trap" when   *)
(* an access aborts with MICRO_ABORT, after which the routine executes no  *)
(* further statement.  word is the word delivered by the last word read,   *)
(* byte the byte a routine returns, address the word address a lookup      *)
(* computes; reads and writes count the calls of cpu_read_memory and       *)
(* cpu_write_memory.                                                       *)
(***************************************************************************)
TO_PA(bank, offset) == BitOr(bank * 2 ^ LA_WIDTH, offset)

UPPER_BYTE(w) == (w \div 2 ^ D8_WIDTH) % 2 ^ D8_WIDTH
LOWER_BYTE(w) == w % 2 ^ D8_WIDTH
TO_WORD(u, l) == (u % 2 ^ D8_WIDTH) * 2 ^ D8_WIDTH + (l % 2 ^ D8_WIDTH)
REPLACE_UPPER(w, b) == TO_WORD(b, LOWER_BYTE(w))
REPLACE_LOWER(w, b) == TO_WORD(UPPER_BYTE(w), b)

Trapped(x) == x.status = "trap"

\* cpu_read_memory: the word read of the CPU, mem_read for the CPU device
cpu_read_memory(x, classification, offset) ==
    IF Trapped(x) THEN x
    ELSE LET r == mem_read(x.s, "cpu_dev", classification, offset)
         IN  [x EXCEPT !.s = [ mem |-> r.mem, tos |-> r.tos, cpx1 |-> r.cpx1 ],
                       !.status = IF r.status = "trap" THEN "trap" ELSE "ok",
                       !.word = r.value,
                       !.reads = @ + 1]

\* cpu_write_memory: the word write of the CPU, mem_write for the CPU device
cpu_write_memory(x, classification, offset, value) ==
    IF Trapped(x) THEN x
    ELSE LET w == mem_write(x.s, "cpu_dev", classification, offset, value)
         IN  [x EXCEPT !.s = [ mem |-> w.mem, tos |-> w.tos, cpx1 |-> w.cpx1 ],
                       !.status = IF w.status = "trap" THEN "trap" ELSE "ok",
                       !.writes = @ + 1]

\* the bounds of a word offset for the address formation of a checked class
WordLegal(classification, offset) ==
    CASE classification = "fetch_checked" -> FetchLegal(offset)
      [] classification = "program_checked" -> ProgramLegal(offset)
      [] classification \in {"data_checked", "data_mapped_checked", "stack_checked"} ->
            DataLegal(offset)
      [] OTHER -> TRUE

\* cpu_byte_ea: the word address of a byte offset; for a checked class the
\* starting word and, with a block length, the ending word are bounds-checked
cpu_byte_ea(x, classification, offset, block_length) ==
    LET starting_word == (offset \div 2) % 2 ^ LA_WIDTH
        ending_word ==
            IF block_length = 0 THEN starting_word
            ELSE ((offset + block_length - 1) \div 2) % 2 ^ LA_WIDTH
    IN  IF Trapped(x) THEN x
        ELSE IF WordLegal(classification, starting_word)
                /\ WordLegal(classification, ending_word)
        THEN [x EXCEPT !.address = starting_word]
        ELSE [x EXCEPT !.status = "trap"]

\* the statements of a routine that follow a call that may trap: F is applied
\* to the machine state x unless the call left it trapped
Continue(x, F(_)) == CHOOSE y \in { IF Trapped(v) THEN v ELSE F(v) : v \in {x} } : TRUE

\* cpu_read_memory (bap->class, bap->word_address, ...)
ReadWord(x) == cpu_read_memory(x, x.bap.class, x.bap.word_address)

\* cpu_write_memory (bap->class, bap->word_address, bap->data_word)
WriteWord(x) == cpu_write_memory(x, x.bap.class, x.bap.word_address, x.bap.data_word)

\* the word read delivered to bap->data_word
ToDataWord(x) == [x EXCEPT !.bap.data_word = x.word]

\* lines 912-913, 802-803 and 940: bap->write_needed = FALSE
MarkWritten(x) == [x EXCEPT !.bap.write_needed = FALSE]

\* mutant: the buffered word written as it is
MergeTarget_buffer(x) == x

\* line 942: the lower byte of the buffer replaced by that of the target word
MergeTarget(x) == [x EXCEPT !.bap.data_word = REPLACE_LOWER(@, x.word)]

\* lines 933-946
mem_update_byte(x) ==
    IF x.bap.write_needed
    THEN Continue(Continue(Continue(MarkWritten(x), ReadWord), MergeTarget), WriteWord)
    ELSE x

\* mutant: the extents never widened
UpdateExtents_kept(b) == b

\* lines 669-687: the extents of the operand brought up to date
UpdateExtents(b) ==
    IF b.count > 0 /\ b.initial_byte_address > 0
    THEN LET length ==
                 IF b.initial_byte_address < b.first_byte_address
                 THEN b.length + b.first_byte_address - b.initial_byte_address
                 ELSE b.length
             count ==
                 IF b.initial_byte_address < b.first_byte_address
                 THEN b.count
                 ELSE b.count + b.initial_byte_address - b.first_byte_address
         IN  [b EXCEPT !.length = IF length < count THEN count ELSE length,
                       !.first_byte_address =
                           IF b.initial_byte_address < @ THEN b.initial_byte_address ELSE @,
                       !.first_byte_offset =
                           IF b.initial_byte_address < b.first_byte_address
                           THEN b.initial_byte_offset
                           ELSE @,
                       !.count = 0]
    ELSE b

\* lines 694-697: the bank of the accesses
AccessBank(classification) ==
    IF mem_access[classification].bank_ptr = "NULL"
    THEN 0
    ELSE Bank(mem_access[classification].bank_ptr)

\* lines 669-689: the extents, then the byte offset saved
SaveOffset(x) ==
    [x EXCEPT !.bap = [UpdateExtents(@) EXCEPT !.initial_byte_offset = x.byte_offset]]

\* mutant: the positioning checked with the class of the byte accesses
SetAddress_same(x) == cpu_byte_ea(x, x.bap.class, x.byte_offset, x.bap.count)

\* lines 691-692: the word address of the byte offset, bounds-checked with the
\* opposite sense of the access class
SetAddress(x) == cpu_byte_ea(x, INVERT_CHECK(x.bap.class), x.byte_offset, x.bap.count)

\* mutant: the word address not biased for an even byte offset
SetWord_unbiased(x) ==
    [x EXCEPT !.bap.initial_byte_address =
                  TO_PA(AccessBank(x.bap.class), x.address) * 2
                  + (x.bap.initial_byte_offset % 2),
              !.bap.word_address = x.address]

\* lines 691-704: the word and byte addresses set
SetWord(x) ==
    [x EXCEPT !.bap.initial_byte_address =
                  TO_PA(AccessBank(x.bap.class), x.address) * 2
                  + (x.bap.initial_byte_offset % 2),
              !.bap.word_address =
                  IF x.bap.initial_byte_offset % 2 = 0
                  THEN (x.address - 1) % 2 ^ LA_WIDTH
                  ELSE x.address]

\* mutant: the accessor positioned without the flush of the last byte
mem_set_byte_unflushed(x) == Continue(Continue(Continue(x, SaveOffset), SetAddress), SetWord)

\* lines 664-707
mem_set_byte(x) ==
    Continue(Continue(Continue(Continue(x, mem_update_byte), SaveOffset), SetAddress),
             SetWord)

\* lines 628-631: the starting word address and the lowest byte address saved
SaveInitial(x) ==
    [x EXCEPT !.bap.initial_word_address = x.bap.word_address,
              !.bap.first_byte_address = x.bap.initial_byte_address,
              !.bap.count = 0]

\* mutant: the access check not inverted for the succeeding calls
mem_init_byte_same(x, classification, block_length) ==
    Continue(Continue([x EXCEPT !.bap.class = classification,
                                !.bap.write_needed = FALSE,
                                !.bap.first_byte_offset = x.byte_offset,
                                !.bap.length = block_length,
                                !.bap.count = block_length,
                                !.bap.initial_byte_address = 0],
                      mem_set_byte),
             SaveInitial)

\* lines 614-634
mem_init_byte(x, classification, block_length) ==
    Continue(Continue([x EXCEPT !.bap.class = INVERT_CHECK(classification),
                                !.bap.write_needed = FALSE,
                                !.bap.first_byte_offset = x.byte_offset,
                                !.bap.length = block_length,
                                !.bap.count = block_length,
                                !.bap.initial_byte_address = 0],
                      mem_set_byte),
             SaveInitial)

\* lines 729-731
Rewind(x) ==
    [x EXCEPT !.byte_offset = x.bap.initial_byte_offset,
              !.bap.word_address = x.bap.initial_word_address,
              !.bap.count = 0]

\* mutant: the pending write merged but the accessor not rewound
mem_reset_byte_ahead(x) == Continue(x, mem_update_byte)

\* lines 723-733
mem_reset_byte(x) == Continue(Continue(x, mem_update_byte), Rewind)

\* mutant: the word read on every lookup
LookupWord_always(x) ==
    Continue(ReadWord([x EXCEPT !.bap.word_address = x.address]), ToDataWord)

\* mutant: the word read without the address being kept
LookupWord_forgetful(x) ==
    IF x.address # x.bap.word_address
    THEN [ToDataWord(ReadWord([x EXCEPT !.bap.word_address = x.address]))
            EXCEPT !.bap.word_address = x.bap.word_address]
    ELSE x

\* lines 759-763: the word read when the address is not that of the prior access
LookupWord(x) ==
    IF x.address # x.bap.word_address
    THEN Continue(ReadWord([x EXCEPT !.bap.word_address = x.address]), ToDataWord)
    ELSE x

\* lines 750-769
mem_lookup_byte(x, index) ==
    LET offset == (x.byte_offset + index) % 2 ^ LA_WIDTH
        Ea(v) == cpu_byte_ea(v, v.bap.class, offset, 0)
        Byte(v) == [v EXCEPT !.byte = IF offset % 2 = 1
                                      THEN LOWER_BYTE(v.bap.data_word)
                                      ELSE UPPER_BYTE(v.bap.data_word)]
    IN  Continue(Continue(Continue(x, Ea), LookupWord), Byte)

\* lines 814-815 and 857-858: the byte offset and the count advanced
Advance(x) ==
    [x EXCEPT !.byte_offset = (@ + 1) % 2 ^ LA_WIDTH,
              !.bap.count = @ + 1]

\* lines 796, 811: the byte returned
GetLower(x) == [x EXCEPT !.byte = LOWER_BYTE(x.bap.data_word)]
GetUpper(x) == [x EXCEPT !.byte = UPPER_BYTE(x.bap.data_word)]

\* lines 808 and 851: the word address advanced
NextWord(x) == [x EXCEPT !.bap.word_address = (@ + 1) % 2 ^ LA_WIDTH]

\* mutant: no word read on the first access
FirstRead_never(x) == x

\* mutant: the word read on every access
FirstRead_always(x) == Continue(ReadWord(x), ToDataWord)

\* lines 792-794 and 842-844: the word read on the first access
FirstRead(x) == IF x.bap.count = 0 THEN Continue(ReadWord(x), ToDataWord) ELSE x

\* lines 801-805 and 911-915: the buffered word written when the buffer is occupied
Flush(x) == IF x.bap.write_needed THEN WriteWord(MarkWritten(x)) ELSE x

\* mutant: the buffered word merged with the word in memory
mem_post_byte_merged(x) == mem_update_byte(x)

\* lines 908-917
mem_post_byte(x) == Flush(x)

\* lines 789-818
mem_read_byte(x) ==
    IF x.byte_offset % 2 = 1
    THEN Continue(Continue(Continue(x, FirstRead), GetLower), Advance)
    ELSE Continue(Continue(Continue(Continue(Continue(Continue(x,
             Flush), NextWord), ReadWord), ToDataWord), GetUpper), Advance)

\* mutant: every byte written through at once
mem_write_byte_through(x, byte) ==
    LET Lower(v) == [v EXCEPT !.bap.data_word = REPLACE_LOWER(@, byte)]
        Upper(v) == [v EXCEPT !.bap.data_word = REPLACE_UPPER(@, byte)]
    IN  IF x.byte_offset % 2 = 1
        THEN Continue(Continue(Continue(Continue(Continue(x,
                 FirstRead), Lower), WriteWord), MarkWritten), Advance)
        ELSE Continue(Continue(Continue(Continue(x, NextWord), Upper), WriteWord),
                      Advance)

\* lines 838-861
mem_write_byte(x, byte) ==
    LET Lower(v) == [v EXCEPT !.bap.data_word = REPLACE_LOWER(@, byte)]
        Upper(v) == [v EXCEPT !.bap.data_word = REPLACE_UPPER(@, byte),
                              !.bap.write_needed = TRUE]
    IN  IF x.byte_offset % 2 = 1
        THEN Continue(Continue(Continue(Continue(Continue(x,
                 FirstRead), Lower), WriteWord), MarkWritten), Advance)
        ELSE Continue(Continue(Continue(x, NextWord), Upper), Advance)

\* mutant: the upper byte written through at once
mem_modify_byte_through(x, byte) ==
    LET Lower(v) == [v EXCEPT !.bap.data_word = REPLACE_LOWER(@, byte)]
        Upper(v) == [v EXCEPT !.bap.data_word = REPLACE_UPPER(@, byte)]
    IN  IF x.byte_offset % 2 = 1
        THEN Continue(Continue(Continue(x, Upper), WriteWord), MarkWritten)
        ELSE Continue(Continue(Continue(x, Lower), WriteWord), MarkWritten)

\* lines 873-888
mem_modify_byte(x, byte) ==
    LET Lower(v) == [v EXCEPT !.bap.data_word = REPLACE_LOWER(@, byte)]
        Upper(v) == [v EXCEPT !.bap.data_word = REPLACE_UPPER(@, byte),
                              !.bap.write_needed = TRUE]
    IN  IF x.byte_offset % 2 = 1
        THEN Upper(x)
        ELSE Continue(Continue(Continue(x, Lower), WriteWord), MarkWritten)

(***************************************************************************)
(* Initial states.  mem_initialize allocates the Word Store zeroed and the *)
(* cold load may fill it (mem_fill (0, fill_value)); the TOS registers are *)
(* clear.  The CPU registers are inputs: a register file varies either the *)
(* program registers or the data and stack registers.                      *)
(***************************************************************************)
Banks == 0..(TO_BANK(MEMSIZE) - 1)
Bounds == 0..MaxBound
Offsets == 0..MEMSIZE
WriteValues == 1..MaxValue
Addresses == 0..(MEMORY_ALLOCATION - 1)

\* lines 319-327: fill from the starting address through the end of defined memory
mem_fill(mem, starting_address, fill_value) ==
    [ address \in Addresses |->
        IF starting_address <= address /\ address < MEMSIZE
        THEN MEMORY_WORD(fill_value)
        ELSE mem[address] ]

\* no byte accessor is in use
NoAccessor ==
    /\ bap = [ class |-> "absolute", write_needed |-> FALSE, first_byte_offset |-> 0,
               length |-> 0, count |-> 0, initial_byte_address |-> 0,
               initial_byte_offset |-> 0, initial_word_address |-> 0,
               first_byte_address |-> 0, word_address |-> 0, data_word |-> 0 ]
    /\ byte_offset = 0
    /\ blast = NoCall
    /\ bprev = NoCall
    /\ bpre = [ bap |-> bap, byte_offset |-> byte_offset, M |-> M ]
    /\ binit = [ byte_offset |-> 0, word_address |-> 0, class |-> "absolute" ]
    /\ steps = 0
    /\ trip = NoTrip
    /\ shadow = NoShadow
    /\ fmt = NoFormat

ProgramFiles ==
    [ PBANK : Banks, PB : Bounds, PL : Bounds, PRIV : BOOLEAN,
      DBANK : {0}, SBANK : {1}, DL : {1}, SM : {1}, SR : {1} ]

DataFiles ==
    [ PBANK : {0}, PB : {1}, PL : {MaxBound}, PRIV : BOOLEAN,
      DBANK : Banks, SBANK : Banks, DL : Bounds, SM : Bounds, SR : 0..TR_N ]

Init ==
    /\ \E fill_value \in {0, DV_MASK} :
          M = mem_fill([ address \in Addresses |-> 0 ], 0, fill_value)
    /\ TR = [ i \in 0..(TR_N - 1) |-> 0 ]
    /\ CPX1 = {}
    /\ \E f \in ProgramFiles \cup DataFiles :
          /\ PBANK = f.PBANK /\ DBANK = f.DBANK /\ SBANK = f.SBANK
          /\ PB = f.PB /\ PL = f.PL /\ DL = f.DL /\ SM = f.SM /\ SR = f.SR
          /\ PRIV = f.PRIV
    /\ last = NoCall
    /\ prev = NoCall
    /\ pre = [ M |-> M, TR |-> TR, CPX1 |-> CPX1 ]
    /\ NoAccessor

(***************************************************************************)
(* Actions: one call of mem_read or mem_write.  A behaviour is one call,   *)
(* or a write that returns followed by a read of the same offset through   *)
(* the same classification or its checked/unchecked counterpart.           *)
(***************************************************************************)
Call(op, dptr, classification, offset, r) ==
    [ op |-> op, dptr |-> dptr, class |-> classification, offset |-> offset,
      value |-> r.value, status |-> r.status ]

Apply(op, dptr, classification, offset, r) ==
    /\ M' = r.mem
    /\ TR' = r.tos
    /\ CPX1' = r.cpx1
    /\ pre' = [ M |-> M, TR |-> TR, CPX1 |-> CPX1 ]
    /\ prev' = last
    /\ last' = Call(op, dptr, classification, offset, r)
    /\ UNCHANGED << regs, bytes >>

Read(dptr, classification, offset) ==
    /\ last.op = "none"
    /\ Apply("read", dptr, classification, offset, mem_read(Now, dptr, classification, offset))

Write(dptr, classification, offset, value) ==
    /\ last.op = "none"
    /\ Apply("write", dptr, classification, offset,
             mem_write(Now, dptr, classification, offset, value))

\* the read that follows a write that returned
ReadBack(classification) ==
    /\ last.op = "write"
    /\ last.status \in {"TRUE", "FALSE"}
    /\ Apply("read", last.dptr, classification, last.offset,
             mem_read(Now, last.dptr, classification, last.offset))

Next ==
    \/ /\ last.op = "none"
       /\ \E dptr \in Devices, classification \in Classes, offset \in Offsets :
             Read(dptr, classification, offset)
    \/ /\ last.op = "none"
       /\ \E dptr \in Devices, classification \in Classes, offset \in Offsets,
             value \in WriteValues :
             Write(dptr, classification, offset, value)
    \/ /\ last.op = "write"
       /\ \E classification \in {last.class, INVERT_CHECK(last.class)} :
             ReadBack(classification)

Spec == Init /\ [][Next]_vars

(***************************************************************************)
(* Properties.  at(c) is the address mem_read and mem_write form for the   *)
(* call c; InWindow is the TOS overlay window, InMemory the configured     *)
(* size.                                                                   *)
(***************************************************************************)
Unchecked ==
    {"absolute", "absolute_mapped", "fetch", "program", "data", "data_mapped",
     "stack", "dma"}
Checked ==
    {"fetch_checked", "program_checked", "data_checked", "data_mapped_checked",
     "stack_checked"}
WriteIllegal == {"fetch", "fetch_checked", "program", "program_checked"}
MappedUnchecked == {"absolute_mapped", "data_mapped", "stack"}
MappedChecked == {"data_mapped_checked", "stack_checked"}
DataChecked == {"data_checked", "data_mapped_checked", "stack_checked"}

at(c) == FormAddress(c.class, c.offset)
InMemory(c) == at(c).address < MEMSIZE
InWindow(c) == SM < at(c).offset /\ at(c).offset <= SM + SR /\ at(c).bank = SBANK
Register(c) == SM + SR - at(c).offset
IsRead(c) == c.op = "read"
IsWrite(c) == c.op = "write"

\* a write followed by a read through the same classification at the same offset
WriteThenRead == IsWrite(prev) /\ IsRead(last) /\ last.class = prev.class

\* C1 (as amended): for every unchecked classification that may be written
\* (all but fetch and program) and every offset whose physical address is
\* below the configured size and outside the TOS window, mem_write of v
\* followed by mem_read with the same classification and offset succeeds and
\* returns v.
C1_WriteThenReadWritable ==
    (/\ WriteThenRead
     /\ prev.class \in Unchecked \ {"fetch", "program"}
     /\ InMemory(prev)
     /\ ~InWindow(prev))
    => /\ prev.status = "TRUE"
       /\ last.status = "TRUE"
       /\ last.value = prev.value

\* C1 (as claimed): the same for every unchecked classification, fetch and
\* program included.
C1_WriteThenReadUnchecked ==
    (/\ WriteThenRead
     /\ prev.class \in Unchecked
     /\ InMemory(prev)
     /\ ~InWindow(prev))
    => /\ last.status = "TRUE"
       /\ last.value = prev.value

C1_Witness ==
    /\ WriteThenRead
    /\ prev.class = "stack"
    /\ InMemory(prev)
    /\ ~InWindow(prev)
    /\ SM < prev.offset
    /\ last.value = prev.value
    /\ pre.M[at(prev).address] = prev.value

\* C2: for every classification and every offset whose physical address is
\* at or above the configured size, mem_read and mem_write return FALSE
\* without trapping, mem_read delivers 0, and the Word Store and the TOS
\* registers are unchanged.
C2_BeyondMemoryFails ==
    (last.op # "none" /\ ~InMemory(last))
    => /\ last.status = "FALSE"
       /\ IsRead(last) => last.value = 0
       /\ M = pre.M
       /\ TR = pre.TR

C2_Witness ==
    /\ IsWrite(last)
    /\ last.class = "stack_checked"
    /\ ~InMemory(last)
    /\ ~PRIV
    /\ last.offset > SM + SR
    /\ last.status = "FALSE"

\* C3: on a mem_read or mem_write at or above the configured size, the
\* Illegal Address flag of CPX1 is set when the requester is the CPU, and CPX1
\* is unchanged for any other requester.
C3_IllegalAddressForCPUOnly ==
    (last.op # "none" /\ ~InMemory(last))
    => IF last.dptr = "cpu_dev"
       THEN CPX1 = pre.CPX1 \cup {cpx1_ILLADDR}
       ELSE CPX1 = pre.CPX1

C3_Witness ==
    /\ IsRead(last)
    /\ ~InMemory(last)
    /\ last.dptr = "dma_dev"
    /\ last.class = "dma"
    /\ cpx1_ILLADDR \notin CPX1

\* C4 (as amended): a successful mem_write through absolute_mapped,
\* data_mapped or stack stores the value in the Word Store word at the
\* physical address, leaving the TOS registers alone, when the TOS window
\* test does not match; when it matches, the value is stored in
\* TR [SM + SR - offset] only and the Word Store is unchanged.
C4_MappedWriteOneTarget ==
    (/\ IsWrite(last)
     /\ last.class \in MappedUnchecked
     /\ last.status = "TRUE")
    => IF InWindow(last)
       THEN /\ TR = [pre.TR EXCEPT ![Register(last)] = last.value]
            /\ M = pre.M
       ELSE /\ M = [pre.M EXCEPT ![at(last).address] = last.value]
            /\ TR = pre.TR

\* C4 (as claimed): the Word Store word holds the value whether or not the
\* window matches, and the TOS register holds it as well when it matches.
C4_MappedWriteThrough ==
    (/\ IsWrite(last)
     /\ last.class \in MappedUnchecked
     /\ last.status = "TRUE")
    => /\ M[at(last).address] = last.value
       /\ InWindow(last) => TR[Register(last)] = last.value

C4_Witness ==
    /\ IsWrite(last)
    /\ last.class = "data_mapped"
    /\ last.status = "TRUE"
    /\ InWindow(last)
    /\ TR[Register(last)] = last.value
    /\ M[at(last).address] # last.value

AgainstWordStore ==
    /\ last.status = "TRUE"
    /\ IsRead(last) => last.value = pre.M[at(last).address]
    /\ IsWrite(last) => /\ M = [pre.M EXCEPT ![at(last).address] = last.value]
                        /\ TR = pre.TR

C7_ProgramWriteRefused ==
    (/\ IsWrite(last)
     /\ last.class \in WriteIllegal
     /\ InMemory(last))
    => /\ last.status = "FALSE"
       /\ CPX1 = pre.CPX1 \cup {cpx1_ADDRPAR}
       /\ M = pre.M
       /\ TR = pre.TR

C7_Witness ==
    /\ IsWrite(last)
    /\ last.class = "program_checked"
    /\ InMemory(last)
    /\ ~PRIV
    /\ last.offset > PL
    /\ last.status = "FALSE"
    /\ cpx1_ADDRPAR \in CPX1

C9_ProgramBounds ==
    (/\ IsRead(last)
     /\ last.class \in {"fetch_checked", "program_checked"}
     /\ InMemory(last))
    => LET legal == \/ PB <= last.offset /\ last.offset <= PL
                    \/ last.class = "program_checked" /\ PRIV
       IN  IF legal
           THEN /\ last.status = "TRUE"
                /\ last.value = pre.M[at(last).address]
           ELSE /\ last.status = "trap"
                /\ last.value = 0

C9_Witness ==
    /\ IsRead(last)
    /\ last.class = "fetch_checked"
    /\ InMemory(last)
    /\ PRIV
    /\ last.offset = PL + 1
    /\ PB <= PL
    /\ last.status = "trap"

\* what one call of a checked classification that does not trap leaves,
\* compared with the same call made through the unchecked counterpart in the
\* same state; through says whether a checked write inside the TOS window
\* is allowed to differ by its store to the Word Store
SameAsUnchecked(through) ==
    (/\ last'.op # "none"
     /\ last' # last
     /\ last'.class \in Checked
     /\ last'.status # "trap")
    => LET c == last'.class
           u == INVERT_CHECK(c)
           o == last'.offset
           a == FormAddress(c, o)
           r == mem_read(Now, last'.dptr, u, o)
           w == mem_write(Now, last'.dptr, u, o, last'.value)
       IN  /\ u \in Unchecked
           /\ FormAddress(u, o) = a
           /\ IsRead(last') => last'.value = r.value
           /\ IsWrite(last') =>
                 /\ TR' = w.tos
                 /\ M' = IF /\ through
                            /\ c \in MappedChecked
                            /\ a.address < MEMSIZE
                            /\ SM < a.offset /\ a.offset <= SM + SR /\ a.bank = SBANK
                         THEN [w.mem EXCEPT ![a.address] = last'.value]
                         ELSE w.mem

\* C10 (as amended): a checked classification and its unchecked counterpart
\* form the same physical address, and whenever the checked access does not
\* trap it returns the same read value and leaves the same TOS registers and
\* Word Store on write as the unchecked access, except that a
\* data_mapped_checked or stack_checked write inside the TOS window also
\* stores the value in the Word Store word, which the unchecked write leaves
\* unchanged.
C10_CheckedAsUnchecked == [][SameAsUnchecked(TRUE)]_vars

\* C10 (as claimed): the same Word Store in every case.
C10_CheckedSameStore == [][SameAsUnchecked(FALSE)]_vars

C10_Witness ==
    /\ IsWrite(last)
    /\ last.class = "data_mapped_checked"
    /\ last.status = "TRUE"
    /\ InWindow(last)
    /\ TR[Register(last)] = last.value
    /\ M[at(last).address] = last.value
    /\ pre.M[at(last).address] # last.value

(***************************************************************************)
(* Bank registers beyond the configured memory.  The bank registers are    *)
(* CPU registers that hold any bank number the allocation provides for,    *)
(* whatever the configured size: SpecBank starts with each of them at any  *)
(* bank number up to the first bank beyond the allocation.                 *)
(***************************************************************************)
BankValues == 0..TO_BANK(MEMORY_ALLOCATION)

BankFiles ==
    [ PBANK : BankValues, DBANK : BankValues, SBANK : BankValues, PRIV : BOOLEAN,
      PB : {0}, PL : {MaxBound}, DL : {0}, SM : {1}, SR : {1} ]

InitBank ==
    /\ \E fill_value \in {0, DV_MASK} :
          M = mem_fill([ address \in Addresses |-> 0 ], 0, fill_value)
    /\ TR = [ i \in 0..(TR_N - 1) |-> 0 ]
    /\ CPX1 = {}
    /\ \E f \in BankFiles :
          /\ PBANK = f.PBANK /\ DBANK = f.DBANK /\ SBANK = f.SBANK
          /\ PB = f.PB /\ PL = f.PL /\ DL = f.DL /\ SM = f.SM /\ SR = f.SR
          /\ PRIV = f.PRIV
    /\ last = NoCall
    /\ prev = NoCall
    /\ pre = [ M |-> M, TR |-> TR, CPX1 |-> CPX1 ]
    /\ NoAccessor

SpecBank == InitBank /\ [][Next]_vars

\* the classifications whose bank comes from a bank register
Banked == { c \in Classes : mem_access[c].bank_ptr # "NULL" }

\* the bank register of the call c holds a bank beyond the configured size
BankBeyond(c) ==
    /\ c.class \in Banked
    /\ Bank(mem_access[c.class].bank_ptr) >= TO_BANK(MEMSIZE)

\* C11: for a classification with a bank register, whenever the bank register
\* holds a value at or above the configured size divided by the bank size,
\* every mem_read and mem_write through that bank, at any offset, returns
\* FALSE (the illegal-address failure, with the Illegal Address flag for a CPU
\* access) and leaves the Word Store and the TOS registers unchanged: it
\* never reaches a word of the configured memory.
C11_BankBeyondFails ==
    (last.op # "none" /\ BankBeyond(last))
    => /\ last.status = "FALSE"
       /\ last.dptr = "cpu_dev" => cpx1_ILLADDR \in CPX1
       /\ IsRead(last) => last.value = 0
       /\ M = pre.M
       /\ TR = pre.TR

C11_Witness ==
    /\ IsWrite(last)
    /\ last.class = "data"
    /\ DBANK = TO_BANK(MEMSIZE)
    /\ last.offset = 1
    /\ last.dptr = "cpu_dev"
    /\ last.status = "FALSE"
    /\ cpx1_ILLADDR \in CPX1

(***************************************************************************)
(* The byte accessor in use.  An instruction binds an accessor to its byte *)
(* offset variable with mem_init_byte and then calls the byte access       *)
(* routines; it may alter the byte offset variable before it calls         *)
(* mem_set_byte.  A Bounds Violation trap abandons the instruction.        *)
(* blast and bprev record the two most recent calls, bpre the accessor,    *)
(* the byte offset and the Word Store on entry to the most recent call     *)
(* (run numbers the calls of one routine that directly follow              *)
(* mem_init_byte),                                                         *)
(* binit the byte offset and the word address as mem_init_byte returned    *)
(* them and the classification it was called with, steps the number of calls, trip the bytes a round trip has        *)
(* written (put) and read back (got), shadow the Word Store as            *)
(* mem_init_byte found it (orig) and the byte most recently given to each  *)
(* byte position by mem_write_byte or mem_modify_byte (given) and the byte *)
(* positions read or written (seen).                                       *)
(***************************************************************************)
MaxSteps == 3
MaxBlock == 2
MaxIndex == 2

\* the classifications the byte accessors are bound with
ByteClasses == {"data", "data_checked"}
ByteOffsets == 0..LA_MASK
BlockLengths == {0, MaxBlock}
ByteValues == {0, D8_MASK}
Indexes == 0..MaxIndex

\* the machine state on entry to a routine
Enter ==
    [ bap |-> bap, byte_offset |-> byte_offset, s |-> Now, status |-> "ok",
      word |-> 0, byte |-> 0, address |-> 0, reads |-> 0, writes |-> 0 ]

ByteCall(op, arg, y) ==
    \E x \in {y} :
    /\ bap' = x.bap
    /\ byte_offset' = x.byte_offset
    /\ M' = x.s.mem
    /\ TR' = x.s.tos
    /\ CPX1' = x.s.cpx1
    /\ bpre' = [ bap |-> bap, byte_offset |-> byte_offset, M |-> M ]
    /\ bprev' = blast
    /\ blast' = [ op |-> op, arg |-> arg, byte |-> x.byte, address |-> x.address,
                  reads |-> x.reads, writes |-> x.writes, status |-> x.status,
                  run |-> IF blast.op = "init" THEN 1
                          ELSE IF blast.op = op /\ blast.run > 0 THEN blast.run + 1
                          ELSE 0 ]
    /\ steps' = steps + 1
    /\ UNCHANGED << regs, last, prev, pre >>

\* the accessor is bound and the instruction has not been abandoned
Bound == blast.op # "none" /\ blast.status # "trap"

\* mem_init_byte for the byte offset variable holding k
InitByte(classification, k, block_length) ==
    /\ blast.op = "none"
    /\ \E x \in { mem_init_byte([Enter EXCEPT !.byte_offset = k], classification,
                                 block_length) } :
          /\ ByteCall("init", block_length, x)
          /\ binit' = [ byte_offset |-> x.byte_offset,
                        word_address |-> x.bap.word_address,
                        class |-> classification ]

\* mem_set_byte after the byte offset variable is set to k
SetByte(k) ==
    /\ Bound
    /\ ByteCall("set", k, mem_set_byte([Enter EXCEPT !.byte_offset = k]))
    /\ UNCHANGED binit

ResetByte ==
    /\ Bound
    /\ ByteCall("reset", 0, mem_reset_byte(Enter))
    /\ UNCHANGED binit

LookupByte(index) ==
    /\ Bound
    /\ ByteCall("lookup", index, mem_lookup_byte(Enter, index))
    /\ UNCHANGED binit

ReadByte ==
    /\ Bound
    /\ ByteCall("read", 0, mem_read_byte(Enter))
    /\ UNCHANGED binit

WriteByte(byte) ==
    /\ Bound
    /\ ByteCall("write", byte, mem_write_byte(Enter, byte))
    /\ UNCHANGED binit

ModifyByte(byte) ==
    /\ Bound
    /\ ByteCall("modify", byte, mem_modify_byte(Enter, byte))
    /\ UNCHANGED binit

PostByte ==
    /\ Bound
    /\ ByteCall("post", 0, mem_post_byte(Enter))
    /\ UNCHANGED binit

UpdateByte ==
    /\ Bound
    /\ ByteCall("update", 0, mem_update_byte(Enter))
    /\ UNCHANGED binit

\* the Word Store of the byte accessor runs: each word holds its address, or
\* its address and one, within the width of a word
Images == { [ address \in Addresses |-> MEMORY_WORD(address + d) ] : d \in {0, 1} }

\* the BYTE_ACCESS structure before mem_init_byte: the data word is not
\* initialized and holds any value
Unbound ==
    { [ class |-> "absolute", write_needed |-> FALSE, first_byte_offset |-> 0,
        length |-> 0, count |-> 0, initial_byte_address |-> 0,
        initial_byte_offset |-> 0, initial_word_address |-> 0,
        first_byte_address |-> 0, word_address |-> 0, data_word |-> w ] :
      w \in {0, DV_MASK} }

\* the registers of the byte accessor runs: the data segment in bank 1, the
\* words 0 through SM + SR within the bounds, not privileged
InitAccess ==
    /\ M \in Images
    /\ TR = [ i \in 0..(TR_N - 1) |-> 0 ]
    /\ CPX1 = {}
    /\ PBANK = 0 /\ DBANK = 1 /\ SBANK = 0
    /\ PB = 0 /\ PL = 1 /\ DL = 0 /\ SM = 0 /\ SR = 1
    /\ PRIV = FALSE
    /\ last = NoCall
    /\ prev = NoCall
    /\ pre = [ M |-> M, TR |-> TR, CPX1 |-> CPX1 ]
    /\ bap \in Unbound
    /\ byte_offset = 0
    /\ blast = NoCall
    /\ bprev = NoCall
    /\ bpre = [ bap |-> bap, byte_offset |-> byte_offset, M |-> M ]
    /\ binit = [ byte_offset |-> 0, word_address |-> 0, class |-> "absolute" ]
    /\ steps = 0
    /\ trip = NoTrip
    /\ shadow = NoShadow
    /\ fmt = NoFormat

NextByte ==
    \/ /\ blast.op = "none"
       /\ \E classification \in ByteClasses, k \in ByteOffsets,
             block_length \in BlockLengths :
             InitByte(classification, k, block_length)
       /\ UNCHANGED << trip, shadow, fmt >>
    \/ /\ Bound /\ steps <= MaxSteps
       /\ \E k \in ByteOffsets : SetByte(k)
       /\ UNCHANGED << trip, shadow, fmt >>
    \/ /\ Bound /\ steps <= MaxSteps
       /\ ResetByte
       /\ UNCHANGED << trip, shadow, fmt >>
    \/ /\ Bound /\ steps <= MaxSteps
       /\ \E index \in Indexes : LookupByte(index)
       /\ UNCHANGED << trip, shadow, fmt >>
    \/ /\ Bound /\ steps <= MaxSteps
       /\ ReadByte
       /\ UNCHANGED << trip, shadow, fmt >>
    \/ /\ Bound /\ steps <= MaxSteps
       /\ \E byte \in ByteValues : WriteByte(byte)
       /\ UNCHANGED << trip, shadow, fmt >>
    \/ /\ Bound /\ steps <= MaxSteps
       /\ \E byte \in ByteValues : ModifyByte(byte)
       /\ UNCHANGED << trip, shadow, fmt >>
    \/ /\ Bound /\ steps <= MaxSteps
       /\ PostByte
       /\ UNCHANGED << trip, shadow, fmt >>
    \/ /\ Bound /\ steps <= MaxSteps
       /\ UpdateByte
       /\ UNCHANGED << trip, shadow, fmt >>

SpecByte == InitAccess /\ [][NextByte]_vars

(***************************************************************************)
(* The round trip: an instruction binds an accessor, writes up to MaxBytes *)
(* bytes, merges the last word with mem_update_byte, rewinds with          *)
(* mem_reset_byte and reads the bytes back.                                *)
(***************************************************************************)
MaxBytes == 3

NextTrip ==
    \/ /\ blast.op = "none"
       /\ \E classification \in ByteClasses, k \in ByteOffsets,
             block_length \in BlockLengths :
             InitByte(classification, k, block_length)
       /\ UNCHANGED << trip, shadow, fmt >>
    \/ /\ Bound /\ blast.op \in {"init", "write"} /\ Len(trip.put) < MaxBytes
       /\ \E byte \in ByteValues :
             /\ WriteByte(byte)
             /\ trip' = [trip EXCEPT !.put = Append(@, byte)]
             /\ UNCHANGED << shadow, fmt >>
    \/ /\ Bound /\ blast.op = "write"
       /\ UpdateByte
       /\ UNCHANGED << trip, shadow, fmt >>
    \/ /\ Bound /\ blast.op = "update"
       /\ ResetByte
       /\ UNCHANGED << trip, shadow, fmt >>
    \/ /\ Bound /\ blast.op \in {"reset", "read"} /\ Len(trip.got) < Len(trip.put)
       /\ ReadByte
       /\ trip' = IF blast'.status = "trap" THEN trip
                  ELSE [trip EXCEPT !.got = Append(@, blast'.byte)]
       /\ UNCHANGED << shadow, fmt >>

SpecTrip == InitAccess /\ [][NextTrip]_vars

\* C12: after mem_init_byte at a byte offset k, even or odd, n calls of
\* mem_write_byte with b1 .. bn, then mem_update_byte, then mem_reset_byte,
\* the following calls of mem_read_byte return b1 .. bn in order (for an
\* accessor of the data segment, as far as no call traps).
C12_RoundTrip ==
    \A i \in 1..Len(trip.got) : trip.got[i] = trip.put[i]

C12_Witness ==
    /\ Len(trip.put) = MaxBytes
    /\ trip.got = trip.put
    /\ binit.byte_offset % 2 = 1
    /\ trip.put[1] # trip.put[2]
    /\ blast.op = "read"
    /\ blast.status = "ok"

C12_WitnessEven ==
    /\ Len(trip.put) = 2
    /\ trip.got = trip.put
    /\ binit.byte_offset % 2 = 0
    /\ trip.put[1] # trip.put[2]

(***************************************************************************)
(* Properties of the byte access routines.                                 *)
(***************************************************************************)
\* the call c of a byte access routine returned
Returned(c, op) == c.op = op /\ c.status = "ok"

\* the word of memory mem that contains the byte at the byte offset j of the
\* segment the accessor is bound to
ContainingWord(mem, j) == mem[TO_PA(AccessBank(bap.class), (j \div 2) % 2 ^ LA_WIDTH)]

\* the byte at the byte offset j: the upper half of the containing word for an
\* even offset, the lower half for an odd offset
ByteAt(mem, j) ==
    IF j % 2 = 0
    THEN UPPER_BYTE(ContainingWord(mem, j))
    ELSE LOWER_BYTE(ContainingWord(mem, j))

\* C13: the i-th of the successive mem_read_byte calls that follow
\* mem_init_byte at the byte offset k returns the byte at the offset k + i - 1
\* of the operand, the upper half of the containing word for an even offset
\* and the lower half for an odd offset, and each call advances the byte
\* offset variable by one modulo 2 ^ LA_WIDTH and the access count by one.
C13_SuccessiveReads ==
    (Returned(blast, "read") /\ blast.run >= 1)
    => /\ blast.byte = ByteAt(M, binit.byte_offset + blast.run - 1)
       /\ bpre.byte_offset = (binit.byte_offset + blast.run - 1) % 2 ^ LA_WIDTH
       /\ byte_offset = (bpre.byte_offset + 1) % 2 ^ LA_WIDTH
       /\ bap.count = bpre.bap.count + 1
       /\ bap.count = blast.run

C13_Witness ==
    /\ Returned(blast, "read")
    /\ blast.run = 3
    /\ binit.byte_offset = LA_MASK
    /\ byte_offset = 2
    /\ blast.byte = LOWER_BYTE(M[TO_PA(DBANK, (LA_MASK + 1) \div 2)])
    /\ blast.byte # UPPER_BYTE(M[TO_PA(DBANK, (LA_MASK + 1) \div 2)])
    /\ bprev.byte = UPPER_BYTE(M[TO_PA(DBANK, (LA_MASK + 1) \div 2)])

\* the physical address of the word the accessor b is at
WordAt(b) == TO_PA(AccessBank(b.class), b.word_address)

\* the most recent call is a mem_write_byte at an odd offset that follows a
\* mem_write_byte at the even offset before it
WritePair ==
    /\ Returned(bprev, "write")
    /\ Returned(blast, "write")
    /\ bpre.byte_offset % 2 = 1

\* C14: of two consecutive mem_write_byte calls that start at an even byte
\* offset, the first reads and writes no word, buffers the byte as the upper
\* byte and sets the pending flag; the second reads no word, writes one word,
\* the two bytes combined, and clears the flag.
C14_WritePairOneWrite ==
    WritePair
    => /\ bprev.reads = 0 /\ bprev.writes = 0
       /\ bpre.bap.write_needed
       /\ UPPER_BYTE(bpre.bap.data_word) = bprev.arg
       /\ blast.reads = 0 /\ blast.writes = 1
       /\ ~bap.write_needed
       /\ M = [bpre.M EXCEPT ![WordAt(bap)] = TO_WORD(bprev.arg, blast.arg)]

C14_Witness ==
    /\ WritePair
    /\ bprev.arg # blast.arg
    /\ M[WordAt(bap)] = TO_WORD(bprev.arg, blast.arg)
    /\ bpre.M[WordAt(bap)] # M[WordAt(bap)]
    /\ blast.writes = 1

\* the routines that position the accessor
Positioning == {"init", "set", "reset"}

\* C15: a mem_read_byte at an even offset reads exactly one word; in a run of
\* mem_read_byte calls one at an odd offset reads no word when it follows
\* another mem_read_byte, and reads one word when it is the first access since
\* the accessor was positioned.
C15_ReadsPerByte ==
    Returned(blast, "read")
    => /\ bpre.byte_offset % 2 = 0 => blast.reads = 1
       /\ (bpre.byte_offset % 2 = 1 /\ Returned(bprev, "read")) => blast.reads = 0
       /\ (bpre.byte_offset % 2 = 1 /\ bprev.op \in Positioning) => blast.reads = 1

C15_Witness ==
    /\ Returned(blast, "read")
    /\ Returned(bprev, "read")
    /\ bpre.byte_offset % 2 = 1
    /\ bprev.reads = 1
    /\ blast.reads = 0
    /\ blast.byte = LOWER_BYTE(M[WordAt(bap)])
    /\ blast.byte # bprev.byte

\* C16 (as claimed): mem_reset_byte restores the byte offset variable and the
\* word address to the values they had when mem_init_byte returned, whatever
\* calls came between, and leaves first_byte_address, first_byte_offset and
\* length unchanged.
C16_ResetRestores ==
    Returned(blast, "reset")
    => /\ byte_offset = binit.byte_offset
       /\ bap.word_address = binit.word_address
       /\ bap.first_byte_address = bpre.bap.first_byte_address
       /\ bap.first_byte_offset = bpre.bap.first_byte_offset
       /\ bap.length = bpre.bap.length

\* the most recent call is a mem_update_byte with the write pending that a
\* mem_write_byte at an even offset left
UpdatePending ==
    /\ Returned(bprev, "write")
    /\ Returned(blast, "update")
    /\ bpre.byte_offset % 2 = 1
    /\ bpre.bap.write_needed

\* C17: mem_update_byte with the write pending that a mem_write_byte at an
\* even offset left stores, in the word the accessor is at, the byte written
\* as the upper byte and, as the lower byte, the lower byte the word held in
\* memory on entry, whatever lower byte was buffered; no other word changes
\* and the pending flag is cleared.
C17_UpdateMerges ==
    UpdatePending
    => /\ M = [bpre.M EXCEPT ![WordAt(bap)] =
                                TO_WORD(bprev.arg, LOWER_BYTE(bpre.M[WordAt(bap)]))]
       /\ ~bap.write_needed

C17_Witness ==
    /\ UpdatePending
    /\ LOWER_BYTE(bpre.bap.data_word) # LOWER_BYTE(bpre.M[WordAt(bap)])
    /\ UPPER_BYTE(bpre.M[WordAt(bap)]) # bprev.arg
    /\ UPPER_BYTE(M[WordAt(bap)]) = bprev.arg
    /\ LOWER_BYTE(M[WordAt(bap)]) = LOWER_BYTE(bpre.M[WordAt(bap)])

\* C18: mem_modify_byte (b) changes neither the byte offset variable nor the
\* access count nor the word address.  With the byte offset odd it sets the
\* upper byte of the buffered word to b and the pending flag, and writes no
\* word; with the byte offset even it sets the lower byte of the buffered word
\* to b, writes the buffered word to the word the accessor is at and clears
\* the pending flag.  After a mem_read_byte with no write pending that is the
\* byte just read: the word in memory differs from before in that byte only.
C18_ModifyInPlace ==
    Returned(blast, "modify")
    => /\ byte_offset = bpre.byte_offset
       /\ bap.count = bpre.bap.count
       /\ bap.word_address = bpre.bap.word_address
       /\ IF byte_offset % 2 = 1
          THEN /\ bap.data_word = REPLACE_UPPER(bpre.bap.data_word, blast.arg)
               /\ bap.write_needed
               /\ blast.writes = 0
               /\ M = bpre.M
          ELSE /\ bap.data_word = REPLACE_LOWER(bpre.bap.data_word, blast.arg)
               /\ ~bap.write_needed
               /\ blast.writes = 1
               /\ M = [bpre.M EXCEPT ![WordAt(bap)] = bap.data_word]
               /\ (Returned(bprev, "read") /\ ~bpre.bap.write_needed)
                  => M = [bpre.M EXCEPT ![WordAt(bap)] = REPLACE_LOWER(@, blast.arg)]

C18_Witness ==
    /\ Returned(blast, "modify")
    /\ Returned(bprev, "read")
    /\ byte_offset % 2 = 0
    /\ ~bpre.bap.write_needed
    /\ bprev.byte # blast.arg
    /\ LOWER_BYTE(M[WordAt(bap)]) = blast.arg
    /\ M # bpre.M

\* C19: mem_lookup_byte never changes the byte offset variable, and of two
\* consecutive mem_lookup_byte calls the second reads a word exactly when the
\* word address it computes differs from the one the first computed.
C19_LookupReads ==
    /\ blast.op = "lookup" => byte_offset = bpre.byte_offset
    /\ (Returned(blast, "lookup") /\ Returned(bprev, "lookup"))
       => blast.reads = IF blast.address # bprev.address THEN 1 ELSE 0

C19_Witness ==
    /\ Returned(blast, "lookup")
    /\ Returned(bprev, "lookup")
    /\ blast.arg # bprev.arg
    /\ blast.address = bprev.address
    /\ bprev.reads = 1
    /\ blast.reads = 0
    /\ blast.byte # bprev.byte

\* C20 (as amended): mem_lookup_byte leaves the byte offset variable, the
\* access count, the pending flag and memory unchanged.  When the word address
\* it computes equals the current word address it reads no word and leaves the
\* buffered data word and the word address unchanged; otherwise it sets the
\* word address to the computed one and replaces the buffered data word by
\* the word read there.
C20_LookupFrame ==
    Returned(blast, "lookup")
    => /\ byte_offset = bpre.byte_offset
       /\ bap.count = bpre.bap.count
       /\ bap.write_needed = bpre.bap.write_needed
       /\ M = bpre.M
       /\ IF blast.address = bpre.bap.word_address
          THEN /\ blast.reads = 0
               /\ bap.data_word = bpre.bap.data_word
               /\ bap.word_address = bpre.bap.word_address
          ELSE /\ blast.reads = 1
               /\ bap.word_address = blast.address
               /\ bap.data_word = M[WordAt(bap)]

\* C20 (as claimed): the buffered data word, the word address and the pending
\* flag are the same after mem_lookup_byte as before.
C20_LookupKeepsBuffer ==
    Returned(blast, "lookup")
    => /\ bap.data_word = bpre.bap.data_word
       /\ bap.word_address = bpre.bap.word_address
       /\ bap.write_needed = bpre.bap.write_needed

C20_Witness ==
    /\ Returned(blast, "lookup")
    /\ Returned(bprev, "write")
    /\ bpre.bap.write_needed
    /\ bap.write_needed
    /\ bap.word_address # bpre.bap.word_address
    /\ bap.data_word # bpre.bap.data_word

\* C21 (as claimed): mem_lookup_byte (index) returns the byte that memory
\* holds at the byte offset (byte offset variable + index) modulo
\* 2 ^ LA_WIDTH, the upper byte of the containing word for an even offset and
\* the lower byte for an odd one, in every state of the accessor after
\* mem_init_byte, the first lookup after mem_init_byte included.
C21_LookupReturnsMemory ==
    Returned(blast, "lookup")
    => blast.byte = ByteAt(M, (bpre.byte_offset + blast.arg) % 2 ^ LA_WIDTH)

(***************************************************************************)
(* The scan: an instruction binds an accessor, reads bytes and repositions *)
(* the accessor with mem_set_byte, MaxScan calls in all.                   *)
(***************************************************************************)
MaxScan == 5

NextScan ==
    \/ /\ blast.op = "none"
       /\ \E classification \in ByteClasses, k \in ByteOffsets,
             block_length \in BlockLengths :
             InitByte(classification, k, block_length)
       /\ UNCHANGED << trip, shadow, fmt >>
    \/ /\ Bound /\ steps < MaxScan
       /\ ReadByte
       /\ UNCHANGED << trip, shadow, fmt >>
    \/ /\ Bound /\ steps < MaxScan
       /\ \E k \in ByteOffsets : SetByte(k)
       /\ UNCHANGED << trip, shadow, fmt >>

\* the registers of the scans: as for the byte accessor runs, with the data
\* words 0 through SM + SR within the bounds for SR zero or one
InitScan ==
    /\ M \in Images
    /\ TR = [ i \in 0..(TR_N - 1) |-> 0 ]
    /\ CPX1 = {}
    /\ PBANK = 0 /\ DBANK = 1 /\ SBANK = 0
    /\ PB = 0 /\ PL = 1 /\ DL = 0 /\ SM = 0 /\ SR \in {0, 1}
    /\ PRIV = FALSE
    /\ last = NoCall
    /\ prev = NoCall
    /\ pre = [ M |-> M, TR |-> TR, CPX1 |-> CPX1 ]
    /\ bap \in Unbound
    /\ byte_offset = 0
    /\ blast = NoCall
    /\ bprev = NoCall
    /\ bpre = [ bap |-> bap, byte_offset |-> byte_offset, M |-> M ]
    /\ binit = [ byte_offset |-> 0, word_address |-> 0, class |-> "absolute" ]
    /\ steps = 0
    /\ trip = NoTrip
    /\ shadow = NoShadow
    /\ fmt = NoFormat

SpecScan == InitScan /\ [][NextScan]_vars

\* the starting byte address of the last positioning lies below the lowest
\* byte address seen
Lowered(b) == b.initial_byte_address < b.first_byte_address

\* the distance between the two
Difference(b) ==
    IF Lowered(b)
    THEN b.first_byte_address - b.initial_byte_address
    ELSE b.initial_byte_address - b.first_byte_address

\* the first byte address, the first byte offset and the length of a and b
\* are the same
SameExtent(a, b) ==
    /\ a.first_byte_address = b.first_byte_address
    /\ a.first_byte_offset = b.first_byte_offset
    /\ a.length = b.length

\* the clauses of the extent tracking that do not concern the length of a
\* lowered extent
ExtentFrame ==
    /\ (bpre.bap.count > 0 /\ Lowered(bpre.bap))
       => /\ bap.first_byte_address = bpre.bap.initial_byte_address
          /\ bap.first_byte_offset = bpre.bap.initial_byte_offset
    /\ (bpre.bap.count > 0 /\ ~Lowered(bpre.bap))
       => /\ bap.first_byte_address = bpre.bap.first_byte_address
          /\ bap.first_byte_offset = bpre.bap.first_byte_offset
          /\ bap.length >= bpre.bap.length
          /\ bap.length >= bpre.bap.count + Difference(bpre.bap)
          /\ bap.length \in {bpre.bap.length, bpre.bap.count + Difference(bpre.bap)}
    /\ bpre.bap.count = 0 => SameExtent(bap, bpre.bap)

\* C22 (as claimed): across mem_set_byte, when bytes were accessed since the
\* last positioning and its starting byte address is lower than the lowest
\* address seen, the first byte address and offset drop to it and the length
\* grows by the difference; when it is higher or equal the first byte address
\* is unchanged and only the length can grow, to cover the bytes accessed;
\* when no byte was accessed the extent is unchanged.
C22_ExtentAsClaimed ==
    Returned(blast, "set")
    => /\ ExtentFrame
       /\ (bpre.bap.count > 0 /\ Lowered(bpre.bap))
          => bap.length = bpre.bap.length + Difference(bpre.bap)

\* C22 (amended): as claimed, but with a lowered extent the length becomes
\* the larger of the length grown by the difference and the count of bytes
\* accessed since the last positioning.
C22_ExtentTracking ==
    Returned(blast, "set")
    => /\ ExtentFrame
       /\ (bpre.bap.count > 0 /\ Lowered(bpre.bap))
          => bap.length =
                IF bpre.bap.length + Difference(bpre.bap) < bpre.bap.count
                THEN bpre.bap.count
                ELSE bpre.bap.length + Difference(bpre.bap)

\* a lowered extent whose length grows by more than the difference
C22_Witness ==
    /\ Returned(blast, "set")
    /\ bpre.bap.count > 0
    /\ Lowered(bpre.bap)
    /\ bap.length = bpre.bap.count
    /\ bap.length > bpre.bap.length + Difference(bpre.bap)
    /\ bap.first_byte_address = bpre.bap.initial_byte_address

\* the byte access routines that follow mem_init_byte
ByteAccesses == {"read", "write", "modify", "post", "update"}

\* the word offsets the call c of a byte access routine passes to
\* cpu_read_memory and cpu_write_memory, for the accessor b and the byte
\* offset k on entry
WordsAccessed(c, b, k) ==
    CASE c.op = "read" ->
            IF k % 2 = 1
            THEN IF b.count = 0 THEN {b.word_address} ELSE {}
            ELSE (IF b.write_needed THEN {b.word_address} ELSE {})
                 \cup {(b.word_address + 1) % 2 ^ LA_WIDTH}
      [] c.op = "write" -> IF k % 2 = 1 THEN {b.word_address} ELSE {}
      [] c.op = "modify" -> IF k % 2 = 1 THEN {} ELSE {b.word_address}
      [] OTHER -> IF b.write_needed THEN {b.word_address} ELSE {}

\* C23: after mem_init_byte with a checked classification has returned, no
\* mem_read_byte, mem_write_byte, mem_modify_byte, mem_post_byte or
\* mem_update_byte on the accessor raises a Bounds Violation trap; with an
\* unchecked classification mem_init_byte itself never traps, and a later
\* byte access traps exactly when one of the word accesses it makes is
\* outside the bounds of the checked classification.
C23_CheckInverted ==
    /\ (blast.op \in ByteAccesses /\ binit.class = "data_checked")
       => blast.status = "ok"
    /\ (blast.op = "init" /\ binit.class = "data") => blast.status = "ok"
    /\ (blast.op \in ByteAccesses /\ binit.class = "data")
       => (blast.status = "trap"
           <=> \E w \in WordsAccessed(blast, bpre.bap, bpre.byte_offset) :
                  ~DataLegal(w))

\* a byte read that traps after an unchecked mem_init_byte
C23_Witness ==
    /\ binit.class = "data"
    /\ blast.op = "read"
    /\ bprev.op = "read"
    /\ blast.status = "trap"
    /\ ~DataLegal((bpre.bap.word_address + 1) % 2 ^ LA_WIDTH)

\* the call c of mem_set_byte repositions the accessor with no write pending
Repositioning(c) == c.op = "set" /\ ~bpre.bap.write_needed

\* C24 (as claimed): a mem_set_byte call made after initialization never
\* raises a Bounds Violation trap from its address re-derivation.
C24_SetNeverTraps == Repositioning(blast) => blast.status = "ok"

\* C24 (amended): a mem_set_byte call made after initialization raises a
\* Bounds Violation trap from its address re-derivation exactly when
\* mem_init_byte was called with a checked classification and the word of the
\* new byte offset is outside the bounds of that classification.
C24_SetChecksAsBound ==
    Repositioning(blast)
    => (blast.status = "trap"
        <=> /\ binit.class = "data_checked"
            /\ ~DataLegal((blast.arg \div 2) % 2 ^ LA_WIDTH))

\* a repositioning that traps after a checked mem_init_byte and a byte read
C24_Witness ==
    /\ Repositioning(blast)
    /\ bprev.op = "read"
    /\ binit.class = "data_checked"
    /\ blast.status = "trap"
    /\ bpre.bap.class = "data"

\* C25: in mem_read and mem_write the test of the configured size comes
\* before the dispatch on the classification: an access whose physical
\* address is at or above the configured size returns FALSE without a Bounds
\* Violation trap, even when the offset is outside the bounds of a checked
\* class, and without setting the Address Parity Error flag, even when the
\* class may not be written.
C25_SizeTestFirst ==
    (last.op # "none" /\ ~InMemory(last))
    => /\ last.status = "FALSE"
       /\ cpx1_ADDRPAR \in CPX1 => cpx1_ADDRPAR \in pre.CPX1

\* a write through a checked program class, outside the program bounds and
\* beyond memory
C25_Witness ==
    /\ IsWrite(last)
    /\ last.class = "program_checked"
    /\ ~InMemory(last)
    /\ ~ProgramLegal(last.offset)
    /\ last.status = "FALSE"
    /\ cpx1_ADDRPAR \notin CPX1

\* a read through a checked data class, outside the data bounds and beyond
\* memory
C25_WitnessRead ==
    /\ IsRead(last)
    /\ last.class = "data_checked"
    /\ ~InMemory(last)
    /\ ~DataLegal(last.offset)
    /\ last.status = "FALSE"

\* the most recent call is a mem_set_byte or a mem_reset_byte that returned
Positioned == Returned(blast, "set") \/ Returned(blast, "reset")

\* C26: after mem_set_byte or mem_reset_byte returns the pending-write flag
\* is false; if a write was pending on entry, the word at the word address
\* held on entry holds the buffered upper byte and the lower byte memory held
\* there, after one word read and one word write, and no other word has
\* changed; if none was pending, memory is unchanged and no word is accessed.
C26_PositioningFlushes ==
    Positioned
    => /\ ~bap.write_needed
       /\ IF bpre.bap.write_needed
          THEN /\ M = [bpre.M EXCEPT ![WordAt(bpre.bap)] =
                          TO_WORD(UPPER_BYTE(bpre.bap.data_word),
                                  LOWER_BYTE(bpre.M[WordAt(bpre.bap)]))]
               /\ blast.reads = 1
               /\ blast.writes = 1
          ELSE /\ M = bpre.M
               /\ blast.reads = 0
               /\ blast.writes = 0

\* a repositioning to another word that flushes a byte written at an even
\* offset over a different lower byte
C26_Witness ==
    /\ Returned(blast, "set")
    /\ Returned(bprev, "write")
    /\ bpre.bap.write_needed
    /\ bap.word_address # bpre.bap.word_address
    /\ M # bpre.M
    /\ LOWER_BYTE(bpre.bap.data_word) # LOWER_BYTE(bpre.M[WordAt(bpre.bap)])
    /\ UPPER_BYTE(M[WordAt(bpre.bap)]) = bprev.arg

\* the most recent call is a mem_post_byte or a mem_update_byte that returned
Flushed(c) == Returned(c, "post") \/ Returned(c, "update")

\* C27: with no write pending mem_post_byte and mem_update_byte access no
\* word and change neither the accessor nor the byte offset variable nor
\* memory; with a write pending mem_post_byte stores the buffered word as it
\* is at the word the accessor is at, with one word write and no word read;
\* either routine leaves the pending flag clear, and a call of either that
\* directly follows a call of either does nothing.
C27_PostAndUpdate ==
    Flushed(blast)
    => /\ ~bap.write_needed
       /\ byte_offset = bpre.byte_offset
       /\ ~bpre.bap.write_needed
          => /\ bap = bpre.bap
             /\ M = bpre.M
             /\ blast.reads = 0
             /\ blast.writes = 0
       /\ (bpre.bap.write_needed /\ blast.op = "post")
          => /\ M = [bpre.M EXCEPT ![WordAt(bpre.bap)] = bpre.bap.data_word]
             /\ bap = [bpre.bap EXCEPT !.write_needed = FALSE]
             /\ blast.reads = 0
             /\ blast.writes = 1
       /\ Flushed(bprev)
          => /\ bap = bpre.bap
             /\ M = bpre.M
             /\ blast.reads = 0
             /\ blast.writes = 0

\* a mem_post_byte that stores a buffered word whose lower byte differs from
\* the one in memory
C27_Witness ==
    /\ Returned(blast, "post")
    /\ bpre.bap.write_needed
    /\ blast.writes = 1
    /\ LOWER_BYTE(bpre.bap.data_word) # LOWER_BYTE(bpre.M[WordAt(bpre.bap)])
    /\ M[WordAt(bap)] = bpre.bap.data_word

\* a mem_update_byte that follows a mem_post_byte that stored a word
C27_WitnessSecond ==
    /\ Returned(blast, "update")
    /\ Returned(bprev, "post")
    /\ bprev.writes = 1
    /\ blast.writes = 0

(***************************************************************************)
(* The mix: an instruction binds an accessor and calls mem_read_byte,      *)
(* mem_write_byte, mem_modify_byte, mem_post_byte and mem_update_byte in   *)
(* any order, MaxMix calls in all.  A byte position is twice the physical  *)
(* address of its word, plus one for the lower byte.                       *)
(***************************************************************************)
MaxMix == 4

\* the byte position of a sequential access that entered with the byte offset
\* k and left the accessor b
Position(b, k) == 2 * WordAt(b) + (k % 2)

\* the byte position of the last byte accessed, for the byte offset k
LastPosition(b, k) == 2 * WordAt(b) + (1 - (k % 2))

\* the byte of the memory mem at the byte position p
ByteOf(mem, p) ==
    IF p % 2 = 0 THEN UPPER_BYTE(mem[p \div 2]) ELSE LOWER_BYTE(mem[p \div 2])

\* the byte given to the position p by the call c, if it returned
Given(sh, p, byte, c) ==
    IF c.status = "ok" THEN [sh EXCEPT !.given = (p :> byte) @@ @] ELSE sh

NextMix ==
    \/ /\ blast.op = "none"
       /\ \E classification \in ByteClasses, k \in ByteOffsets,
             block_length \in BlockLengths :
             InitByte(classification, k, block_length)
       /\ shadow' = [ orig |-> M, given |-> << >>, seen |-> {} ]
       /\ UNCHANGED << trip, fmt >>
    \/ /\ Bound /\ steps < MaxMix
       /\ ReadByte
       /\ UNCHANGED << trip, shadow, fmt >>
    \/ /\ Bound /\ steps < MaxMix
       /\ \E byte \in ByteValues :
             /\ WriteByte(byte)
             /\ shadow' = Given(shadow, Position(bap', byte_offset), byte, blast')
       /\ UNCHANGED << trip, fmt >>
    \/ /\ Bound /\ steps < MaxMix
       /\ \E byte \in ByteValues :
             /\ ModifyByte(byte)
             /\ shadow' = Given(shadow, LastPosition(bap', byte_offset), byte, blast')
       /\ UNCHANGED << trip, fmt >>
    \/ /\ Bound /\ steps < MaxMix
       /\ PostByte
       /\ UNCHANGED << trip, shadow, fmt >>
    \/ /\ Bound /\ steps < MaxMix
       /\ UpdateByte
       /\ UNCHANGED << trip, shadow, fmt >>

SpecMix == InitAccess /\ [][NextMix]_vars

\* C28 (as claimed): no pending write is lost.  Whenever mem_read_byte,
\* mem_write_byte or mem_modify_byte moves the accessor to another word
\* address while the pending flag is set, the buffered word has been written
\* to the word the accessor was at; and after a mem_update_byte or a
\* mem_post_byte every byte position holds the byte most recently given to it
\* by mem_write_byte or mem_modify_byte.
C28_NoPendingLost ==
    /\ (/\ blast.op \in {"read", "write", "modify"}
        /\ blast.status = "ok"
        /\ bpre.bap.write_needed
        /\ bap.word_address # bpre.bap.word_address)
       => /\ blast.writes >= 1
          /\ M[WordAt(bpre.bap)] = bpre.bap.data_word
    /\ Flushed(blast)
       => \A p \in DOMAIN shadow.given : ByteOf(M, p) = shadow.given[p]

\* C29 (as claimed): after any sequence of byte accesses on one accessor,
\* every byte of memory at a position that was never the target of a
\* mem_write_byte or a mem_modify_byte holds the value it had before the
\* sequence.
C29_OnlyGivenBytesChange ==
    (blast.op # "none" /\ blast.status = "ok")
    => \A p \in 0..(2 * MEMORY_ALLOCATION - 1) :
          p \notin DOMAIN shadow.given => ByteOf(M, p) = ByteOf(shadow.orig, p)

\* C30 (as claimed): each mem_read_byte returns the byte most recently given
\* to its byte position through the accessor, or the byte memory holds there
\* if none was given; a mem_read_byte at an odd offset that follows a
\* mem_write_byte at the even offset before it returns the lower byte that
\* memory holds.
C30_ReadYourWrites ==
    /\ Returned(blast, "read")
       => blast.byte =
             IF Position(bap, bpre.byte_offset) \in DOMAIN shadow.given
             THEN shadow.given[Position(bap, bpre.byte_offset)]
             ELSE ByteOf(M, Position(bap, bpre.byte_offset))
    /\ (Returned(blast, "read") /\ Returned(bprev, "write") /\ bpre.byte_offset % 2 = 1)
       => blast.byte = LOWER_BYTE(M[WordAt(bap)])

(***************************************************************************)
(* The cursor: an instruction binds an accessor and calls the byte access  *)
(* routines in any order, MaxCursor calls in all.                          *)
(***************************************************************************)
MaxCursor == 3

NextCursor ==
    \/ /\ blast.op = "none"
       /\ \E classification \in ByteClasses, k \in ByteOffsets,
             block_length \in BlockLengths :
             InitByte(classification, k, block_length)
       /\ UNCHANGED << trip, shadow, fmt >>
    \/ /\ Bound /\ steps < MaxCursor
       /\ \E k \in ByteOffsets : SetByte(k)
       /\ UNCHANGED << trip, shadow, fmt >>
    \/ /\ Bound /\ steps < MaxCursor
       /\ ResetByte
       /\ UNCHANGED << trip, shadow, fmt >>
    \/ /\ Bound /\ steps < MaxCursor
       /\ \E index \in Indexes : LookupByte(index)
       /\ UNCHANGED << trip, shadow, fmt >>
    \/ /\ Bound /\ steps < MaxCursor
       /\ ReadByte
       /\ UNCHANGED << trip, shadow, fmt >>
    \/ /\ Bound /\ steps < MaxCursor
       /\ \E byte \in ByteValues : WriteByte(byte)
       /\ UNCHANGED << trip, shadow, fmt >>
    \/ /\ Bound /\ steps < MaxCursor
       /\ \E byte \in ByteValues : ModifyByte(byte)
       /\ UNCHANGED << trip, shadow, fmt >>
    \/ /\ Bound /\ steps < MaxCursor
       /\ PostByte
       /\ UNCHANGED << trip, shadow, fmt >>
    \/ /\ Bound /\ steps < MaxCursor
       /\ UpdateByte
       /\ UNCHANGED << trip, shadow, fmt >>

SpecCursor == InitAccess /\ [][NextCursor]_vars

\* the word that contains the byte before the byte offset k
WordBefore(k) == ((k - 1) % 2 ^ LA_WIDTH) \div 2

C31_WitnessLookup ==
    /\ Returned(blast, "lookup")
    /\ Returned(bprev, "read")
    /\ bap.word_address # bpre.bap.word_address
    /\ bap.word_address # WordBefore(byte_offset)

(***************************************************************************)
(* The cover: an instruction binds an accessor, reads and writes bytes,    *)
(* rewinds with mem_reset_byte and repositions with mem_set_byte,          *)
(* MaxCover calls in all.                                                  *)
(***************************************************************************)
MaxCover == 5

\* the byte position p read or written by the call c, if it returned
Seen(sh, p, c) == IF c.status = "ok" THEN [sh EXCEPT !.seen = @ \cup {p}] ELSE sh

NextCover ==
    \/ /\ blast.op = "none"
       /\ \E classification \in ByteClasses, k \in ByteOffsets,
             block_length \in BlockLengths :
             InitByte(classification, k, block_length)
       /\ shadow' = [ orig |-> M, given |-> << >>, seen |-> {} ]
       /\ UNCHANGED << trip, fmt >>
    \/ /\ Bound /\ steps < MaxCover
       /\ ReadByte
       /\ shadow' = Seen(shadow, Position(bap', byte_offset), blast')
       /\ UNCHANGED << trip, fmt >>
    \/ /\ Bound /\ steps < MaxCover
       /\ \E byte \in ByteValues : WriteByte(byte)
       /\ shadow' = Seen(shadow, Position(bap', byte_offset), blast')
       /\ UNCHANGED << trip, fmt >>
    \/ /\ Bound /\ steps < MaxCover
       /\ ResetByte
       /\ UNCHANGED << trip, shadow, fmt >>
    \/ /\ Bound /\ steps < MaxCover
       /\ \E k \in ByteOffsets : SetByte(k)
       /\ UNCHANGED << trip, shadow, fmt >>

SpecCover == InitAccess /\ [][NextCover]_vars

\* the byte position p lies in the extent of the accessor b
Covered(b, p) ==
    b.first_byte_address <= p /\ p < b.first_byte_address + b.length

\* C32 (as claimed): whenever mem_set_byte returns, the extent from the first
\* byte address over the length contains the byte address of every byte read
\* or written through the accessor since mem_init_byte, also when
\* mem_reset_byte was called in between.
C32_ExtentCovers ==
    Returned(blast, "set") => \A p \in shadow.seen : Covered(bap, p)

(***************************************************************************)
(* Properties of the word access routines that hold for every              *)
(* classification and register state.                                      *)
(***************************************************************************)
\* C33 (as claimed): a mem_write that ends in a Bounds Violation trap has
\* modified neither the Word Store nor a TOS register, for every checked
\* classification and every value of DL, SM, SR, the bank registers and PRIV.
C33_TrapWritesNothing ==
    (IsWrite(last) /\ last.status = "trap") => (M = pre.M /\ TR = pre.TR)

\* C34: mem_read never modifies the Word Store or the TOS registers, for
\* every classification, offset and register state; of CPX1 it sets only the
\* Illegal Address flag, and only on an access of the CPU at or above the
\* configured size.
C34_ReadFrame ==
    IsRead(last)
    => /\ M = pre.M
       /\ TR = pre.TR
       /\ CPX1 = IF last.dptr = "cpu_dev" /\ ~InMemory(last)
                 THEN pre.CPX1 \cup {cpx1_ILLADDR}
                 ELSE pre.CPX1

\* a successful read of a non-zero word through a mapped class
C34_Witness ==
    /\ IsRead(last)
    /\ last.status = "TRUE"
    /\ last.class = "stack"
    /\ last.value # 0
    /\ M[at(last).address] = last.value
    /\ M = pre.M

\* a read that traps
C34_WitnessTrap ==
    /\ IsRead(last)
    /\ last.status = "trap"
    /\ M = pre.M
    /\ TR = pre.TR

\* C35: whenever mem_read or mem_write accesses a TOS register, the register
\* index SM + SR - offset lies in 0..SR-1 and so inside the register file: a
\* call changes no register but that one, a read that delivers a value other
\* than the addressed memory word delivers that register, and with SR = 0 no
\* register is read or written.
C35_TOSIndexInFile ==
    last.op # "none"
    => /\ 0..(SR - 1) \subseteq DOMAIN TR
       /\ DOMAIN TR = DOMAIN pre.TR
       /\ \A i \in DOMAIN TR :
             TR[i] # pre.TR[i]
             => /\ IsWrite(last)
                /\ InWindow(last)
                /\ i = Register(last)
                /\ i \in 0..(SR - 1)
                /\ TR[i] = last.value
       /\ (IsRead(last) /\ last.status = "TRUE" /\ last.value # pre.M[at(last).address])
          => /\ InWindow(last)
             /\ Register(last) \in 0..(SR - 1)
             /\ last.value = pre.TR[Register(last)]
       /\ SR = 0
          => /\ TR = pre.TR
             /\ (IsRead(last) /\ last.status = "TRUE")
                => last.value = pre.M[at(last).address]

\* a write to the highest register of a full register file
C35_Witness ==
    /\ IsWrite(last)
    /\ SR = TR_N
    /\ Register(last) = SR - 1
    /\ TR[SR - 1] # pre.TR[SR - 1]

\* a read of register 0, at the top of the window, that differs from memory
C35_WitnessRead ==
    /\ IsRead(last)
    /\ last.status = "TRUE"
    /\ SR = TR_N
    /\ Register(last) = 0
    /\ InWindow(last)
    /\ last.value # pre.M[at(last).address]

(***************************************************************************)
(* The operand formatting routines.  fmt_byte_operand copies the bytes of  *)
(* an operand into its static buffer; fmt_bcd_operand reformats them as    *)
(* hexadecimal characters into its own static buffer.  The state fmt holds *)
(* the position of one call of fmt_bcd_operand: its parameters, the byte   *)
(* operand it reads (operand, bptr), its buffer and store pointer (buffer, *)
(* cptr), the indices it has stored to (stores), the number of hexadecimal *)
(* characters stored (digits) and the value returned (result).             *)
(***************************************************************************)

\* line 971: the size of the buffer of fmt_byte_operand
BYTE_BUFFER == 257
\* line 975: the byte count at which a byte operand is truncated
BYTE_LIMIT == 256
\* line 1059: the size of the buffer of fmt_bcd_operand
BCD_BUFFER == 33
\* line 1063: the digit count above which a BCD operand is invalid
BCD_LIMIT == 32

\* the digit counts above the limit that are tried
MaxOver == 1

\* line 1058
hex == << "0", "1", "2", "3", "4", "5", "6", "7",
          "8", "9", "A", "B", "C", "D", "E", "F" >>

\* the character that ends a string
NUL == "NUL"

\* the upper and lower four bits of a byte (hp3000_defs.h)
UPPER_HALF(b) == (b \div 2 ^ 4) % 2 ^ 4
LOWER_HALF(b) == b % 2 ^ 4

\* hex [n]: the table is indexed from 0
Hex(n) == hex[n + 1]

\* lines 982-990: the copy loop of fmt_byte_operand and the trailing NUL; buf
\* is the buffer, cptr the index of the next character
RECURSIVE CopyBytes(_, _, _, _, _, _)
CopyBytes(buf, mem, byte_address, address, byte_count, cptr) ==
    IF byte_count = 0
    THEN [buf EXCEPT ![cptr] = 0]
    ELSE IF byte_address % 2 = 1
    THEN CopyBytes([buf EXCEPT ![cptr] = LOWER_BYTE(mem[address])], mem,
                   byte_address + 1, address + 1, byte_count - 1, cptr + 1)
    ELSE IF address < MEMSIZE
    THEN CopyBytes([buf EXCEPT ![cptr] = UPPER_BYTE(mem[address])], mem,
                   byte_address + 1, address, byte_count - 1, cptr + 1)
    ELSE [buf EXCEPT ![cptr] = 0]

\* lines 969-993: the buffer of fmt_byte_operand after the call; buf is the
\* buffer as the call before left it
fmt_byte_operand(buf, mem, byte_address, byte_count) ==
    CopyBytes(buf, mem, byte_address, byte_address \div 2,
              IF byte_count > BYTE_LIMIT THEN BYTE_LIMIT ELSE byte_count, 0)

\* the static buffers before the first call
NoBytes == [ i \in 0..(BYTE_BUFFER - 1) |-> 0 ]
NoDigits == [ i \in 0..(BCD_BUFFER - 1) |-> NUL ]

\* *cptr++ = c.  A store at an index within the buffer sets the character; a
\* store beyond the buffer is undefined, and either overwrites the object
\* that follows the buffer (spilt) or has no effect that is seen.
StoreChar(f, c, hit) ==
    [ f EXCEPT !.buffer = IF f.cptr < BCD_BUFFER THEN [@ EXCEPT ![f.cptr] = c] ELSE @,
               !.stores = @ \cup {f.cptr},
               !.spilt = @ \/ (f.cptr >= BCD_BUFFER /\ hit),
               !.digits = IF c = NUL THEN @ ELSE @ + 1,
               !.cptr = @ + 1 ]

\* the outcomes of a store at index cptr
Hits(f) == IF f.cptr >= BCD_BUFFER THEN BOOLEAN ELSE {FALSE}

\* everything but the state of the formatting routines
FmtFrame ==
    UNCHANGED << M, TR, CPX1, regs, last, prev, pre,
                 bap, byte_offset, blast, bprev, bpre, binit, steps, trip, shadow >>

\* lines 1063-1069: the entry of fmt_bcd_operand
FmtCall(byte_address, digit_count) ==
    /\ fmt.pc = "idle"
    /\ fmt' = IF digit_count > BCD_LIMIT
              THEN [ pc |-> "done", digit_count |-> digit_count,
                     byte_count |-> 0, operand |-> NoBytes, bptr |-> 0,
                     buffer |-> NoDigits, cptr |-> 0, stores |-> {},
                     spilt |-> FALSE, digits |-> 0, result |-> "(invalid)" ]
              ELSE [ pc |-> "first", digit_count |-> digit_count,
                     byte_count |-> digit_count \div 2 + 1,
                     operand |-> fmt_byte_operand(NoBytes, M, byte_address,
                                                  digit_count \div 2 + 1),
                     bptr |-> 0, buffer |-> NoDigits, cptr |-> 0, stores |-> {},
                     spilt |-> FALSE, digits |-> 0, result |-> "none" ]
    /\ FmtFrame

\* lines 1071-1074: the lower half of the first byte of an even digit count
FmtFirst ==
    /\ fmt.pc = "first"
    /\ fmt' = IF fmt.digit_count % 2 = 0
              THEN [ StoreChar(fmt, Hex(LOWER_HALF(fmt.operand[fmt.bptr])), FALSE)
                       EXCEPT !.bptr = @ + 1, !.byte_count = @ - 1, !.pc = "loop" ]
              ELSE [ fmt EXCEPT !.pc = "loop" ]
    /\ FmtFrame

\* lines 1076-1079: both halves of the next byte
FmtByte ==
    /\ fmt.pc = "loop"
    /\ fmt.byte_count > 0
    /\ \E hit \in Hits(fmt) :
          LET upper == StoreChar(fmt, Hex(UPPER_HALF(fmt.operand[fmt.bptr])), hit)
          IN  \E more \in Hits(upper) :
                 fmt' = [ StoreChar(upper, Hex(LOWER_HALF(fmt.operand[fmt.bptr])), more)
                            EXCEPT !.bptr = @ + 1, !.byte_count = @ - 1 ]
    /\ FmtFrame

\* lines 1081-1083: the trailing NUL and the return of the buffer
FmtEnd ==
    /\ fmt.pc = "loop"
    /\ fmt.byte_count = 0
    /\ \E hit \in Hits(fmt) :
          fmt' = [ StoreChar(fmt, NUL, hit) EXCEPT !.pc = "done", !.result = "buffer" ]
    /\ FmtFrame

\* the byte addresses of the configured memory
OperandAddresses == 0..(2 * MEMSIZE - 1)

NextFmt ==
    \/ \E byte_address \in OperandAddresses, digit_count \in 0..(BCD_LIMIT + MaxOver) :
          FmtCall(byte_address, digit_count)
    \/ FmtFirst
    \/ FmtByte
    \/ FmtEnd

SpecFmt == InitAccess /\ [][NextFmt]_vars

\* C36 (as claimed): for every digit_count from 0 to 32, fmt_bcd_operand
\* stores at most 33 characters, the terminating NUL included, every one at an
\* index in 0..32 of its 33-character buffer, and produces exactly
\* digit_count + 1 hexadecimal characters; for a digit_count above 32 it
\* returns the invalid sentinel without touching the buffer.
C36_BufferHolds ==
    fmt.pc = "done"
    => IF fmt.digit_count <= BCD_LIMIT
       THEN /\ fmt.stores \subseteq 0..(BCD_BUFFER - 1)
            /\ Cardinality(fmt.stores) <= BCD_BUFFER
            /\ fmt.digits = fmt.digit_count + 1
            /\ fmt.result = "buffer"
       ELSE /\ fmt.result = "(invalid)"
            /\ fmt.stores = {}
            /\ fmt.buffer = NoDigits

====
